---- MODULE Spec2Model ----
(***************************************************************************)
(* Verification model of bespokelabs-curator:                              *)
(*   - the run coordinators LLM.__call__ and Prompter.__call__ and their   *)
(*     cache fingerprints (src/src/bespokelabs/curator/llm/llm.py and      *)
(*     src/src/bespokelabs/curator/prompter/prompter.py), specification    *)
(*     SpecLLM;                                                            *)
(*   - the function hash _get_function_hash of both files, specification   *)
(*     SpecHash;                                                           *)
(*   - the Anthropic batch adapter and the batch life cycle it drives      *)
(*     (src/src/bespokelabs/curator/request_processor/batch/               *)
(*      anthropic_batch_request_processor.py), specification Spec;         *)
(*   - parse_api_specific_response as a function of its arguments,         *)
(*     specification SpecParse;                                            *)
(*   - the semaphore that bounds the adapter's concurrent provider calls,  *)
(*     specification SpecSem;                                              *)
(*   - the constructor Prompter.__init__, specification SpecPrompterInit;  *)
(*   - a batch run that crashes and is resumed on its working directory,   *)
(*     specification SpecRestart;                                          *)
(*   - the online request processor with retries, specification            *)
(*     SpecOnline, and the rate limiter, specification SpecLimiter.        *)
(***************************************************************************)
EXTENDS Integers, Sequences, FiniteSets, TLC

VARIABLES
    prev,       \* the entry-point invocation before the latest one (or NoCall)
    cur,        \* the latest entry-point invocation (or NoCall)
    remote,     \* the provider's message batches, by batch
    tracker,    \* the Tracker: the GenericBatch recorded for each batch
    downloaded, \* the batches whose results have been downloaded
    responses,  \* the response log: GenericResponses in download order
    output,     \* the final output rows (<<>> until the run has built them)
    cancelRun,  \* the cancel_batches call: "idle", "running", "failing" (an
                \* exception is on its way out), "returned", "raised"
    cancelPending, \* the batches the running cancel_batches call has yet to cancel
    lastOp,     \* what the latest adapter operation did
    semaphore,  \* the free permits of the processor's semaphore
    inflight,   \* inflight[h]: the operations that hold h permits and have a
                \* provider call in flight
    waiting,    \* the cancel_batch calls that hold one permit and wait for the
                \* permit of their retrieve_batch
    args,       \* the arguments given to a function under study
    returned,   \* what the function returned for args (NotCalled before)
    creates,    \* creates[b]: the batches.create calls the provider has
                \* received for chunk b
    crashes,    \* the number of times the process died and was restarted
    online,     \* the run of the online request processor
    limiter     \* the rate limiter and the requests issued against it

llmVars == <<prev, cur>>
batchVars == <<remote, tracker, downloaded, responses, output,
               cancelRun, cancelPending, lastOp, creates>>
semVars == <<semaphore, inflight, waiting>>
funcVars == <<args, returned>>
onlineVars == <<crashes, online, limiter>>
nonBatchVars == <<llmVars, semVars, funcVars, onlineVars>>
vars == <<prev, cur, remote, tracker, downloaded, responses, output,
          cancelRun, cancelPending, lastOp, semaphore, inflight, waiting,
          args, returned, creates, crashes, online, limiter>>

(***************************************************************************)
(* Bounds                                                                  *)
(***************************************************************************)
\* longest generation_params dict passed to LLM.__init__
MaxParams == 2
\* rows of the input dataset of a batch run
NumRows == 3
\* backend_params batch_size of a batch run
batch_size == 2

(***************************************************************************)
(* Python values                                                           *)
(***************************************************************************)
None == "None"

\* str(bool)
StrBool(b) == IF b THEN "True" ELSE "False"

\* str.lower() on the values CURATOR_DISABLE_CACHE takes in this model
Lower(s) ==
    CASE s = "True" -> "true"
      [] s = "TRUE" -> "true"
      [] OTHER -> s

\* xxh64(data).hexdigest(): the digest is kept symbolic (and so collision
\* free): it is the hashed bytes inside a tag.
xxh64(data) == "xxh64<" \o data \o ">"

\* os.path.join(a, b) for a relative b
path_join(a, b) == a \o "/" \o b

\* the outcome of a call: the exception it raised ("" if none) and the value
\* it returned (is_none: it returned None)
NoBatch == [ status |-> None ]
Return(v) == [ raised |-> "", is_none |-> FALSE, value |-> v ]
ReturnNone == [ raised |-> "", is_none |-> TRUE, value |-> NoBatch ]
Raise(e) == [ raised |-> e, is_none |-> FALSE, value |-> NoBatch ]

\* the function under study has not been called
NotCalled == [ raised |-> "not called" ]

(***************************************************************************)
(* generation_params: a dict, kept as the sequence of its items in         *)
(* insertion order (keys are distinct)                                     *)
(***************************************************************************)
GenKeys == {"max_tokens", "temperature", "top_p"}
GenValues == {None, "0.7"}

\* Python's order on the key strings: "max_tokens" < "temperature" < "top_p"
KeyRank(k) ==
    CASE k = "max_tokens" -> 1
      [] k = "temperature" -> 2
      [] k = "top_p" -> 3

\* repr(str) of a key, repr of a value (a float or None)
ReprKey(k) == "'" \o k \o "'"
ReprValue(v) == v

RECURSIVE DictsOfLen(_)
DictsOfLen(n) ==
    IF n = 0 THEN {<<>>}
    ELSE { Append(d, <<k, v>>) :
             d \in DictsOfLen(n - 1), k \in GenKeys, v \in GenValues }

DistinctKeys(d) == \A i, j \in 1..Len(d) : d[i][1] = d[j][1] => i = j

Dicts == { d \in UNION { DictsOfLen(n) : n \in 0..MaxParams } : DistinctKeys(d) }

\* an argument that is a dict or None
NoneDict == [ is_none |-> TRUE, items |-> <<>> ]
Dict(d) == [ is_none |-> FALSE, items |-> d ]

\* llm.py:214-216
remove_none_values(d) == SelectSeq(d, LAMBDA item : item[2] # None)

\* sorted(d.items()): items are (key, value) tuples with distinct keys, so the
\* order is the order of the keys
RECURSIVE InsertSorted(_, _)
InsertSorted(item, s) ==
    IF s = <<>> THEN <<item>>
    ELSE IF KeyRank(item[1]) < KeyRank(Head(s)[1]) THEN <<item>> \o s
    ELSE <<Head(s)>> \o InsertSorted(item, Tail(s))

RECURSIVE sorted(_)
sorted(items) ==
    IF items = <<>> THEN <<>>
    ELSE InsertSorted(Head(items), sorted(Tail(items)))

\* str() of a list of (key, value) tuples: "[('a', 1), ('b', 2)]"
StrItem(item) == "(" \o ReprKey(item[1]) \o ", " \o ReprValue(item[2]) \o ")"

RECURSIVE JoinItems(_)
JoinItems(items) ==
    IF items = <<>> THEN ""
    ELSE IF Len(items) = 1 THEN StrItem(items[1])
    ELSE StrItem(items[1]) \o ", " \o JoinItems(Tail(items))

StrItems(items) == "[" \o JoinItems(items) \o "]"

\* "_".join(parts)
RECURSIVE JoinUnderscore(_)
JoinUnderscore(parts) ==
    IF parts = <<>> THEN ""
    ELSE IF Len(parts) = 1 THEN parts[1]
    ELSE parts[1] \o "_" \o JoinUnderscore(Tail(parts))

(***************************************************************************)
(* LLM (llm.py)                                                            *)
(***************************************************************************)
CURATOR_DEFAULT_CACHE_DIR == "~/.cache/curator"

\* os.path.expanduser
expanduser(p) == IF p = "~/.cache/curator" THEN "/home/user/.cache/curator" ELSE p

\* user functions, by name: the functions given to LLM, and all functions
Funcs == {"f1", "f2"}
Functions ==
    Funcs \cup {"g1", "f1_dir", "f1_file", "f1_module", "f1_qualname", "f1_line"}

\* the function object of a function: "f2" has other code than "f1", "g1"
\* is a parse function of two parameters, "f0" and "g3" are functions of no
\* and of three parameters, and each "f1_..." is "f1" defined in another
\* directory, file, module, scope or line
F1 ==
    [ name |-> "prompt_func",
      module |-> "__main__",
      qualname |-> "prompt_func",
      co_argcount |-> 1,
      co_code |-> "return row['question']",
      co_filename |-> [ dir |-> "/home/user/project", base |-> "pipeline.py" ],
      co_firstlineno |-> 10 ]

FuncObject(func) ==
    CASE func = "f1" -> F1
      [] func = "f2" -> [F1 EXCEPT !.co_code = "return row['text']"]
      [] func = "g1" -> [F1 EXCEPT !.name = "parse_func", !.qualname = "parse_func",
                                   !.co_argcount = 2, !.co_code = "return response",
                                   !.co_firstlineno = 14]
      [] func = "f0" -> [F1 EXCEPT !.co_argcount = 0, !.co_code = "return 'Say hello'"]
      [] func = "g3" -> [F1 EXCEPT !.name = "parse_func", !.qualname = "parse_func",
                                   !.co_argcount = 3, !.co_code = "return extra",
                                   !.co_firstlineno = 14]
      [] func = "f1_dir" -> [F1 EXCEPT !.co_filename.dir = "/srv/jobs"]
      [] func = "f1_file" -> [F1 EXCEPT !.co_filename.base = "pipeline_v2.py"]
      [] func = "f1_module" -> [F1 EXCEPT !.module = "pipeline"]
      [] func = "f1_qualname" -> [F1 EXCEPT !.qualname = "build.<locals>.prompt_func"]
      [] func = "f1_line" -> [F1 EXCEPT !.co_firstlineno = 42]

\* os.path.basename
basename(path) == path.base

\* datasets.utils._dill.Pickler(file, recurse=True).dump(func): the function
\* is pickled as it is, with its module, qualified name, name and code; of the
\* origin of the code this Pickler keeps the base name of the file and drops
\* the line number
Pickle(func) ==
    LET f == FuncObject(func)
    IN "dill:" \o f.module \o ":" \o f.qualname \o ":" \o f.name \o ":"
         \o basename(f.co_filename) \o ":" \o ToString(f.co_argcount) \o ":" \o f.co_code

\* pydantic response formats and str(cls.model_json_schema())
Formats == {"Answer", "Score"}
model_json_schema(cls) == "{'title': '" \o cls \o "', 'type': 'object'}"

\* datasets, with their Dataset._fingerprint
Datasets == {"ds1", "ds2"}
dataset_fingerprint(ds) == "fp:" \o ds

Backends == {"openai", "anthropic", "litellm"}

\* _RequestProcessorFactory.create: the class of the processor it builds
RequestProcessorFactory_create(batch, backend) ==
    CASE backend = "openai" /\ batch -> "OpenAIBatchRequestProcessor"
      [] backend = "openai" /\ ~batch -> "OpenAIOnlineRequestProcessor"
      [] backend = "anthropic" /\ batch -> "AnthropicBatchRequestProcessor"
      [] OTHER -> "LiteLLMOnlineRequestProcessor"

\* llm.py:190-197
get_function_hash(func) ==
    IF func = None THEN xxh64("") ELSE xxh64(Pickle(func))

\* llm.py:200-211
get_function_source(func) == "def " \o func

(***************************************************************************)
(* _get_function_hash of prompter.py (lines 291-389)                       *)
(***************************************************************************)
\* the Python versions the package runs on: 3.10, and 3.11 or later
PythonVersions == {"3.10", "3.11"}

\* Python values with their type
PyInt(v) == [ type |-> "int", value |-> v ]
PyStr(v) == [ type |-> "str", value |-> v ]
PyBytes(v) == [ type |-> "bytes", value |-> v ]
PyTuple(v) == [ type |-> "tuple", value |-> v ]

\* the types of the positional parameters of types.CodeType: argcount,
\* posonlyargcount, kwonlyargcount, nlocals, stacksize, flags, codestring,
\* constants, names, varnames, filename, name, and then in Python 3.10
\* firstlineno, linetable, freevars, cellvars, and from Python 3.11 on
\* qualname, firstlineno, linetable, exceptiontable, freevars, cellvars
CodeTypeParams(python) ==
    << "int", "int", "int", "int", "int", "int", "bytes", "tuple", "tuple", "tuple",
       "str", "str" >>
    \o (IF python = "3.10"
          THEN << "int", "bytes", "tuple", "tuple" >>
          ELSE << "str", "int", "bytes", "bytes", "tuple", "tuple" >>)

\* types.CodeType(*a): TypeError when an argument does not have the type of
\* its parameter
CodeType(python, a) ==
    IF \E k \in DOMAIN a : a[k].type # CodeTypeParams(python)[k]
      THEN Raise("TypeError")
      ELSE Return([ co_code |-> a[7].value,
                    co_filename |-> a[11].value,
                    co_name |-> a[12].value ])

\* PathIndependentPickler(file).dump(new_func), lines 291-329 and 383-386:
\* the module is "standardized_module" and the qualified name is the name
PathIndependentPickler_dump(code, name) ==
    "dill4:standardized_module:" \o name \o ":" \o name \o ":"
      \o code.co_filename \o ":" \o code.co_code

\* prompter.py:340-389
prompter_get_function_hash(python, func) ==
    IF func = None THEN Return(xxh64(""))
    ELSE LET f == FuncObject(func)
             code == CodeType(python, <<
                 PyInt(ToString(f.co_argcount)),
                 PyInt("co_posonlyargcount"),
                 PyInt("co_kwonlyargcount"),
                 PyInt("co_nlocals"),
                 PyInt("co_stacksize"),
                 PyInt("co_flags"),
                 PyBytes(f.co_code),
                 PyTuple("co_consts"),
                 PyTuple("sorted co_names"),
                 PyTuple("sorted co_varnames"),
                 PyStr("standardized"),
                 PyStr(f.name),
                 PyStr("1"),
                 PyBytes("co_linetable"),
                 PyTuple("sorted co_freevars"),
                 PyTuple("sorted co_cellvars") >>)
         IN IF code.raised # "" THEN code
            ELSE Return(xxh64(PathIndependentPickler_dump(code.value, f.name)))

\* the two implementations of _get_function_hash are applied to two functions
HashArgs ==
    [ f : Functions \cup {None}, g : Functions \cup {None}, python : PythonVersions ]

PrompterGetFunctionHash ==
    /\ returned = NotCalled
    /\ returned' = [ source |-> "prompter.py",
                     f |-> prompter_get_function_hash(args.python, args.f),
                     g |-> prompter_get_function_hash(args.python, args.g) ]
    /\ UNCHANGED <<llmVars, batchVars, semVars, onlineVars, args>>

LLMGetFunctionHash ==
    /\ returned = NotCalled
    /\ returned' = [ source |-> "llm.py",
                     f |-> Return(get_function_hash(args.f)),
                     g |-> Return(get_function_hash(args.g)) ]
    /\ UNCHANGED <<llmVars, batchVars, semVars, onlineVars, args>>

\* llm.py:78-84, LLM.__init__
LLMInit(a) ==
    LET generation_params == IF a.generation_params.is_none THEN <<>>
                             ELSE a.generation_params.items
    IN [ prompt_formatter |->
           [ model_name |-> a.model_name,
             prompt_func |-> a.prompt_func,
             parse_func |-> a.parse_func,
             response_format |-> a.response_format,
             generation_params |-> remove_none_values(generation_params) ],
         batch_mode |-> a.batch,
         request_processor |->
           [ class |-> RequestProcessorFactory_create(a.batch, a.backend),
             backend |-> a.backend ] ]

\* llm.py:92-105, the string that is hashed when the cache is enabled
fingerprint_string_unsorted(self, dataset_hash) ==
    LET pf == self.prompt_formatter
        base == JoinUnderscore(<<
                  dataset_hash,
                  get_function_hash(pf.prompt_func),
                  pf.model_name,
                  IF pf.response_format # None
                    THEN model_json_schema(pf.response_format) ELSE "text",
                  StrBool(self.batch_mode),
                  self.request_processor.backend >>)
    IN IF pf.generation_params # <<>>
         THEN base \o "_" \o StrItems(pf.generation_params)
         ELSE base

fingerprint_string_no_params(self, dataset_hash) ==
    LET pf == self.prompt_formatter
    IN JoinUnderscore(<<
         dataset_hash,
         get_function_hash(pf.prompt_func),
         pf.model_name,
         IF pf.response_format # None
           THEN model_json_schema(pf.response_format) ELSE "text",
         StrBool(self.batch_mode),
         self.request_processor.backend >>)

fingerprint_string(self, dataset_hash) ==
    LET pf == self.prompt_formatter
        base == JoinUnderscore(<<
                  dataset_hash,
                  get_function_hash(pf.prompt_func),
                  pf.model_name,
                  IF pf.response_format # None
                    THEN model_json_schema(pf.response_format) ELSE "text",
                  StrBool(self.batch_mode),
                  self.request_processor.backend >>)
    IN IF pf.generation_params # <<>>
         THEN base \o "_" \o StrItems(sorted(pf.generation_params))
         ELSE base

\* llm.py:86-111, LLM._hash_fingerprint; urandom is the value os.urandom(8)
\* returns when it is called
hash_fingerprint_always_random(self, dataset_hash, disable_cache, urandom) ==
    xxh64(urandom)

hash_fingerprint_fixed_seed(self, dataset_hash, disable_cache, urandom) ==
    IF disable_cache THEN xxh64("seed")
    ELSE xxh64(fingerprint_string(self, dataset_hash))

hash_fingerprint(self, dataset_hash, disable_cache, urandom) ==
    IF disable_cache THEN xxh64(urandom)
    ELSE xxh64(fingerprint_string(self, dataset_hash))

(***************************************************************************)
(* LLM.__call__ (llm.py:113-187)                                           *)
(***************************************************************************)
NoCall == [ kind |-> "none" ]

\* the values of the environment variable CURATOR_DISABLE_CACHE ("" = unset)
DisableCacheEnv == {"", "true", "1", "True"}

\* the values os.urandom(8) returns
Urandom == {"r1", "r2"}

\* constructor and call arguments of one use of LLM, and the value of the
\* environment variable CURATOR_CACHE_DIR (None = unset)
BaseInput ==
    [ model_name |-> "gpt-4o-mini",
      prompt_func |-> "f1",
      parse_func |-> None,
      response_format |-> None,
      batch |-> TRUE,
      backend |-> "openai",
      generation_params |-> NoneDict,
      dataset |-> "ds1",
      working_dir |-> None,
      batch_cancel |-> FALSE,
      cache_dir_env |-> None ]

\* the inputs that differ from BaseInput in at most one argument
Inputs ==
    {BaseInput}
    \cup { [BaseInput EXCEPT !.model_name = "claude-3-5-haiku"] }
    \cup { [BaseInput EXCEPT !.prompt_func = "f2"] }
    \cup { [BaseInput EXCEPT !.parse_func = g] : g \in Funcs }
    \cup { [BaseInput EXCEPT !.response_format = f] : f \in Formats }
    \cup { [BaseInput EXCEPT !.batch = FALSE] }
    \cup { [BaseInput EXCEPT !.backend = b] : b \in Backends }
    \cup { [BaseInput EXCEPT !.generation_params = Dict(d)] : d \in Dicts }
    \cup { [BaseInput EXCEPT !.dataset = ds] : ds \in Datasets \cup {None} }
    \cup { [BaseInput EXCEPT !.working_dir = "/data/cache"] }
    \cup { [BaseInput EXCEPT !.batch_cancel = TRUE] }
    \cup { [BaseInput EXCEPT !.batch_cancel = TRUE, !.backend = "anthropic"] }
    \cup { [BaseInput EXCEPT !.batch_cancel = TRUE, !.batch = FALSE] }
    \cup { [BaseInput EXCEPT !.cache_dir_env = "/mnt/cache"] }
    \cup { [BaseInput EXCEPT !.cache_dir_env = "/mnt/cache", !.working_dir = "/data/cache"] }

\* llm.py:132-138 and prompter.py:221-227: the cache root
curator_cache_dir_env_first(working_dir, cache_dir_env) ==
    IF cache_dir_env # None THEN cache_dir_env
    ELSE IF working_dir = None THEN expanduser(CURATOR_DEFAULT_CACHE_DIR)
    ELSE working_dir

curator_cache_dir(working_dir, cache_dir_env) ==
    IF working_dir = None
      THEN IF cache_dir_env # None THEN cache_dir_env
           ELSE expanduser(CURATOR_DEFAULT_CACHE_DIR)
      ELSE working_dir

\* datetime.now().isoformat()
now_isoformat == "2025-01-01T00:00:00.000000"

\* what a call does outside of itself, in order: it opens the metadata
\* database, stores a record in it, invokes the processor
MetadataDB(path) == [ op |-> "MetadataDB", path |-> path ]
store_metadata(metadata_dict) == [ op |-> "store_metadata", record |-> metadata_dict ]
NoProcessorCall == [ op |-> "none" ]

\* the record of one invocation of LLM(...)(dataset, working_dir, batch_cancel)
\* in the environment (CURATOR_DISABLE_CACHE = env)
llm_call(a, env, urandom) ==
    LET self == LLMInit(a)
        pf == self.prompt_formatter
        cache_dir == curator_cache_dir(a.working_dir, a.cache_dir_env)
        dataset_hash ==
            IF a.dataset # None THEN dataset_fingerprint(a.dataset) ELSE xxh64("")
        disable_cache == Lower(env) \in {"true", "1"}
        fingerprint == hash_fingerprint(self, dataset_hash, disable_cache, urandom)
        metadata_dict ==
            [ timestamp |-> now_isoformat,
              dataset_hash |-> dataset_hash,
              prompt_func |-> get_function_source(pf.prompt_func),
              parse_func |-> IF pf.parse_func # None
                               THEN get_function_source(pf.parse_func) ELSE "",
              model_name |-> pf.model_name,
              response_format |-> IF pf.response_format # None
                                    THEN model_json_schema(pf.response_format)
                                    ELSE "text",
              run_hash |-> fingerprint,
              batch_mode |-> self.batch_mode ]
        run_cache_dir == path_join(cache_dir, fingerprint)
        raised ==
            IF a.batch_cancel
                 /\ self.request_processor.class # "OpenAIBatchRequestProcessor"
              THEN "ValueError" ELSE ""
        processor_call ==
            IF raised # "" THEN NoProcessorCall
            ELSE IF a.batch_cancel
              THEN [ op |-> "cancel_batches", working_dir |-> run_cache_dir ]
              ELSE [ op |-> "run", working_dir |-> run_cache_dir,
                     parse_func_hash |-> get_function_hash(pf.parse_func) ]
    IN [ kind |-> "call",
         input |-> a,
         self |-> self,
         env |-> env,
         disable_cache |-> disable_cache,
         urandom |-> IF disable_cache THEN urandom ELSE "",
         dataset_hash |-> dataset_hash,
         fingerprint_str |-> IF disable_cache THEN ""
                             ELSE fingerprint_string(self, dataset_hash),
         fingerprint |-> fingerprint,
         effects |-> << MetadataDB(path_join(cache_dir, "metadata.db")),
                        store_metadata(metadata_dict) >>
                     \o (IF raised # "" THEN <<>> ELSE <<processor_call>>),
         run_cache_dir |-> run_cache_dir,
         processor_call |-> processor_call,
         raised |-> raised ]

(***************************************************************************)
(* Prompter (prompter.py:73-288)                                           *)
(***************************************************************************)
\* constructor and call arguments of one use of Prompter with the backend
\* given, and the value of CURATOR_CACHE_DIR (None = unset)
PrompterBaseInput ==
    [ model_name |-> "gpt-4o-mini",
      prompt_func |-> "f1",
      parse_func |-> None,
      response_format |-> None,
      backend |-> "openai",
      batch |-> FALSE,
      temperature |-> None,
      top_p |-> None,
      presence_penalty |-> None,
      frequency_penalty |-> None,
      dataset |-> "ds1",
      working_dir |-> None,
      cache_dir_env |-> None ]

\* the inputs that differ from PrompterBaseInput in at most one argument
PrompterInputs ==
    {PrompterBaseInput}
    \cup { [PrompterBaseInput EXCEPT !.model_name = "gpt-4o"] }
    \cup { [PrompterBaseInput EXCEPT !.prompt_func = "f2"] }
    \cup { [PrompterBaseInput EXCEPT !.parse_func = "g1"] }
    \cup { [PrompterBaseInput EXCEPT !.response_format = f] : f \in Formats }
    \cup { [PrompterBaseInput EXCEPT !.backend = "litellm"] }
    \cup { [PrompterBaseInput EXCEPT !.batch = TRUE] }
    \cup { [PrompterBaseInput EXCEPT !.temperature = "0.7"] }
    \cup { [PrompterBaseInput EXCEPT !.top_p = "0.9"] }
    \cup { [PrompterBaseInput EXCEPT !.presence_penalty = "0.5"] }
    \cup { [PrompterBaseInput EXCEPT !.frequency_penalty = "0.5"] }
    \cup { [PrompterBaseInput EXCEPT !.dataset = ds] : ds \in {"ds2", None} }
    \cup { [PrompterBaseInput EXCEPT !.working_dir = "/data/cache"] }
    \cup { [PrompterBaseInput EXCEPT !.cache_dir_env = "/mnt/cache"] }

\* len(inspect.signature(func).parameters)
num_parameters(func) == FuncObject(func).co_argcount

\* response_format.schema_json()
schema_json(cls) == "{\"title\": \"" \o cls \o "\", \"type\": \"object\"}"

\* prompter.py:115-126: the exception of the checks of the user functions
\* ("" if they pass)
prompter_check_arity_parse_at_most_two(a) ==
    IF num_parameters(a.prompt_func) > 1 THEN "ValueError"
    ELSE IF a.parse_func # None /\ num_parameters(a.parse_func) > 2 THEN "ValueError"
    ELSE ""

prompter_check_arity(a) ==
    IF num_parameters(a.prompt_func) > 1 THEN "ValueError"
    ELSE IF a.parse_func # None /\ num_parameters(a.parse_func) # 2 THEN "ValueError"
    ELSE ""

\* prompter.py:115-183, Prompter.__init__
PrompterInit(a) ==
    IF prompter_check_arity(a) # "" THEN Raise(prompter_check_arity(a))
    ELSE IF a.backend \notin {"openai", "litellm"} THEN Raise("ValueError")
    ELSE Return(
      [ prompt_formatter |->
          [ model_name |-> a.model_name,
            prompt_func |-> a.prompt_func,
            parse_func |-> a.parse_func,
            response_format |-> a.response_format ],
        batch_mode |-> a.batch,
        backend |-> a.backend,
        request_processor |->
          [ class |-> CASE a.backend = "openai" /\ a.batch -> "OpenAIBatchRequestProcessor"
                        [] a.backend = "openai" /\ ~a.batch -> "OpenAIOnlineRequestProcessor"
                        [] OTHER -> "LiteLLMOnlineRequestProcessor",
            temperature |-> a.temperature,
            top_p |-> a.top_p,
            presence_penalty |-> a.presence_penalty,
            frequency_penalty |-> a.frequency_penalty ] ])

\* prompter.py:115-183: the objects Prompter.__init__ constructs, in order
PrompterInitConstructed(a) ==
    IF prompter_check_arity(a) # "" THEN <<>>
    ELSE <<"PromptFormatter">>
           \o (IF PrompterInit(a).raised = ""
                 THEN <<PrompterInit(a).value.request_processor.class>>
                 ELSE <<>>)

\* the arguments Prompter.__init__ is studied on
PrompterInitArgs ==
    { [PrompterBaseInput EXCEPT !.prompt_func = f, !.parse_func = g,
                                !.backend = b, !.batch = batch] :
        f \in {"f0", "f1", "g1", "g3"}, g \in {None, "f0", "f1", "g1", "g3"},
        b \in {"openai", "litellm", "vllm"}, batch \in BOOLEAN }

\* Prompter(...) is constructed
PrompterConstruct ==
    /\ returned = NotCalled
    /\ returned' = [ outcome |-> PrompterInit(args),
                     constructed |-> PrompterInitConstructed(args) ]
    /\ UNCHANGED <<llmVars, batchVars, semVars, onlineVars, args>>

\* prompter.py:237-250, the string that is hashed
prompter_fingerprint_str(self, dataset_hash, prompt_func_hash) ==
    LET pf == self.prompt_formatter
    IN JoinUnderscore(<<
         dataset_hash,
         prompt_func_hash,
         pf.model_name,
         IF pf.response_format # None THEN schema_json(pf.response_format) ELSE "text",
         StrBool(self.batch_mode),
         self.backend >>)

\* prompter.py:195-288: the record of one invocation of
\* Prompter(...)(dataset, working_dir) on a Python version
prompter_completions(a, python) ==
    LET self == PrompterInit(a).value
        pf == self.prompt_formatter
        cache_dir == curator_cache_dir(a.working_dir, a.cache_dir_env)
        dataset_hash ==
            IF a.dataset # None THEN dataset_fingerprint(a.dataset) ELSE xxh64("")
        prompt_func_hash == prompter_get_function_hash(python, pf.prompt_func)
        parse_func_hash == prompter_get_function_hash(python, pf.parse_func)
        fingerprint_str ==
            prompter_fingerprint_str(self, dataset_hash, prompt_func_hash.value)
        fingerprint == xxh64(fingerprint_str)
        metadata_dict ==
            [ timestamp |-> now_isoformat,
              dataset_hash |-> dataset_hash,
              prompt_func |-> get_function_source(pf.prompt_func),
              parse_func |-> IF pf.parse_func # None
                               THEN get_function_source(pf.parse_func) ELSE "",
              model_name |-> pf.model_name,
              response_format |-> IF pf.response_format # None
                                    THEN schema_json(pf.response_format)
                                    ELSE "text",
              run_hash |-> fingerprint,
              batch_mode |-> self.batch_mode ]
        run_cache_dir == path_join(cache_dir, fingerprint)
        Raised(e) ==
            [ kind |-> "prompter", input |-> a, python |-> python, self |-> self,
              raised |-> e,
              dataset_hash |-> dataset_hash,
              fingerprint_str |-> None,
              fingerprint |-> None,
              effects |-> <<>>,
              run_cache_dir |-> None,
              processor_call |-> NoProcessorCall ]
    IN IF prompt_func_hash.raised # "" THEN Raised(prompt_func_hash.raised)
       ELSE IF parse_func_hash.raised # "" THEN Raised(parse_func_hash.raised)
       ELSE LET processor_call ==
                    [ op |-> "run", working_dir |-> run_cache_dir,
                      parse_func_hash |-> parse_func_hash.value ]
            IN [ kind |-> "prompter", input |-> a, python |-> python, self |-> self,
                 raised |-> "",
                 dataset_hash |-> dataset_hash,
                 fingerprint_str |-> fingerprint_str,
                 fingerprint |-> fingerprint,
                 effects |-> << MetadataDB(path_join(cache_dir, "metadata.db")),
                                store_metadata(metadata_dict),
                                processor_call >>,
                 run_cache_dir |-> run_cache_dir,
                 processor_call |-> processor_call ]

\* a Prompter is built and called
PrompterCall ==
    \E a \in PrompterInputs, python \in PythonVersions :
        /\ prev = NoCall
        /\ PrompterInit(a).raised = ""
        /\ prev' = cur
        /\ cur' = prompter_completions(a, python)
        /\ UNCHANGED <<batchVars, semVars, funcVars, onlineVars>>

\* Two invocations are observed: the latest one and the one before it.
LLMCall ==
    \E a \in Inputs, env \in DisableCacheEnv, urandom \in Urandom :
        /\ prev = NoCall
        /\ prev' = cur
        /\ cur' = llm_call(a, env, urandom)
        /\ UNCHANGED <<batchVars, semVars, funcVars, onlineVars>>

(***************************************************************************)
(* Fingerprint claims                                                      *)
(***************************************************************************)
IsCall(c) == c.kind = "call"
BothCalls == IsCall(prev) /\ IsCall(cur)

\* a dict as a value: its set of items
ItemSet(d) == { d[i] : i \in DOMAIN d }

\* the generation_params argument as a dict value (None counts as {})
ArgParams(c) ==
    IF c.input.generation_params.is_none THEN {}
    ELSE ItemSet(c.input.generation_params.items)

\* the items that have a value
SetParams(c) == { item \in ArgParams(c) : item[2] # None }

\* the content components of the fingerprint other than generation_params
Scalars(c) ==
    << c.dataset_hash,
       get_function_hash(c.input.prompt_func),
       c.input.model_name,
       c.input.response_format,
       c.input.batch,
       c.self.request_processor.backend >>

\* the number of content components in which two calls differ, with the
\* generation parameters compared as gp(c)
NumDiffer(p, q, gp(_)) ==
    Cardinality({ i \in 1..6 : Scalars(p)[i] # Scalars(q)[i] })
      + (IF gp(p) # gp(q) THEN 1 ELSE 0)

CacheEnabled(c) == IsCall(c) /\ ~c.disable_cache
CacheDisabled(c) == IsCall(c) /\ c.disable_cache

\* C1: with caching enabled, two invocations with the same dataset hash,
\* prompt-function hash, model name, schema, batch flag, backend and
\* generation parameters get the same fingerprint.
C1_FingerprintDeterminism ==
    (CacheEnabled(prev) /\ CacheEnabled(cur)
       /\ Scalars(prev) = Scalars(cur) /\ ArgParams(prev) = ArgParams(cur))
    => prev.fingerprint = cur.fingerprint

C1_Witness ==
    /\ CacheEnabled(prev) /\ CacheEnabled(cur)
    /\ Scalars(prev) = Scalars(cur) /\ ArgParams(prev) = ArgParams(cur)
    /\ Cardinality(SetParams(cur)) = 2
    /\ prev.fingerprint = cur.fingerprint

\* C2 (as claimed): with caching enabled, two configurations that differ in
\* exactly one of the content components, the generation parameters as passed
\* included, hash different strings and get different fingerprints.
C2_SensitivityAsClaimed ==
    (CacheEnabled(prev) /\ CacheEnabled(cur) /\ NumDiffer(prev, cur, ArgParams) = 1)
    => /\ prev.fingerprint_str # cur.fingerprint_str
       /\ prev.fingerprint # cur.fingerprint

\* C2 (amended): with caching enabled, two configurations that differ in
\* exactly one of the content components, where the generation parameters
\* count only through the parameters whose value is not None, hash different
\* strings and get different fingerprints.
C2_Sensitivity ==
    (CacheEnabled(prev) /\ CacheEnabled(cur) /\ NumDiffer(prev, cur, SetParams) = 1)
    => /\ prev.fingerprint_str # cur.fingerprint_str
       /\ prev.fingerprint # cur.fingerprint

C2_Witness ==
    /\ CacheEnabled(prev) /\ CacheEnabled(cur)
    /\ Scalars(prev) = Scalars(cur)
    /\ SetParams(prev) = {}
    /\ Cardinality(SetParams(cur)) = 1
    /\ prev.fingerprint # cur.fingerprint

\* C3: two configurations whose generation_params hold the same key/value
\* pairs inserted in different orders, and that are otherwise equal, get the
\* same content fingerprint.
C3_ParamsOrderIndependent ==
    (CacheEnabled(prev) /\ CacheEnabled(cur)
       /\ Scalars(prev) = Scalars(cur)
       /\ ArgParams(prev) = ArgParams(cur)
       /\ prev.input.generation_params # cur.input.generation_params)
    => prev.fingerprint = cur.fingerprint

C3_Witness ==
    /\ CacheEnabled(prev) /\ CacheEnabled(cur)
    /\ Scalars(prev) = Scalars(cur)
    /\ ArgParams(prev) = ArgParams(cur)
    /\ Cardinality(SetParams(cur)) = 2
    /\ prev.self.prompt_formatter.generation_params
         # cur.self.prompt_formatter.generation_params
    /\ prev.fingerprint = cur.fingerprint

\* C4 (as claimed): with caching disabled, any two calls get different
\* fingerprints and different working directories.
C4_DisabledCacheAlwaysFreshAsClaimed ==
    (CacheDisabled(prev) /\ CacheDisabled(cur))
    => /\ prev.fingerprint # cur.fingerprint
       /\ prev.run_cache_dir # cur.run_cache_dir

\* C4 (amended): with caching disabled the fingerprint is the digest of the
\* random seed alone, so two calls get the same fingerprint exactly when
\* os.urandom returned the same seed to both, whatever their content, and
\* calls with different seeds get different working directories.
C4_DisabledCacheFreshSeed ==
    (CacheDisabled(prev) /\ CacheDisabled(cur))
    => /\ cur.fingerprint = xxh64(cur.urandom)
       /\ (prev.fingerprint = cur.fingerprint) <=> (prev.urandom = cur.urandom)
       /\ prev.urandom # cur.urandom => prev.run_cache_dir # cur.run_cache_dir

C4_Witness ==
    /\ CacheDisabled(prev) /\ CacheDisabled(cur)
    /\ cur.env \in {"true", "1"}
    /\ prev.input = cur.input
    /\ prev.urandom # cur.urandom
    /\ prev.run_cache_dir # cur.run_cache_dir

(***************************************************************************)
(* The online request processor and the rate limiter                       *)
(***************************************************************************)
\* no run of the online request processor
NoOnlineRun == [ status |-> "none" ]

\* the configured number of retries of a request
max_retries == 2

\* the errors of the attempts of a request, one transient error per attempt
TransientError == "TransientProviderError"

\* a run of the online request processor over the rows of the input: every
\* request is queued with max_retries attempts left and no call made
NewOnlineRun(require_all_responses) ==
    [ status |-> "running",
      require_all_responses |-> require_all_responses,
      state |-> [ i \in 0..(NumRows - 1) |-> "queued" ],
      attempts_left |-> [ i \in 0..(NumRows - 1) |-> max_retries ],
      calls |-> [ i \in 0..(NumRows - 1) |-> 0 ],
      errors |-> [ i \in 0..(NumRows - 1) |-> <<>> ],
      output |-> <<>> ]

\* the request of row i is taken from the queue and its call is issued
OnlineSend(i) ==
    /\ online.status = "running"
    /\ online.state[i] = "queued"
    /\ online' = [online EXCEPT !.state[i] = "in_flight", !.calls[i] = @ + 1]
    /\ UNCHANGED <<llmVars, batchVars, semVars, funcVars, crashes, limiter>>

\* the call of row i succeeds: its response is recorded
OnlineSuccess(i) ==
    /\ online.status = "running"
    /\ online.state[i] = "in_flight"
    /\ online' = [online EXCEPT !.state[i] = "succeeded"]
    /\ UNCHANGED <<llmVars, batchVars, semVars, funcVars, crashes, limiter>>

\* a failed request is retried while it has attempts left
should_retry_once_more(attempts_left) == attempts_left >= 0

should_retry(attempts_left) == attempts_left > 0

\* the call of row i fails with a transient error: the request is queued
\* again with one attempt less, or, its retries exhausted, recorded as failed
\* with the errors of its attempts
OnlineTransientFailure(i) ==
    /\ online.status = "running"
    /\ online.state[i] = "in_flight"
    /\ online' =
         IF should_retry(online.attempts_left[i])
           THEN [online EXCEPT !.state[i] = "queued",
                               !.attempts_left[i] = @ - 1,
                               !.errors[i] = Append(@, TransientError)]
           ELSE [online EXCEPT !.state[i] = "failed",
                               !.errors[i] = Append(@, TransientError)]
    /\ UNCHANGED <<llmVars, batchVars, semVars, funcVars, crashes, limiter>>

\* the row of the output for input row i: the parsed content, or the error
\* markers of a failed row
OnlineOutputRow(i) ==
    IF online.state[i] = "succeeded"
      THEN [ original_row_idx |-> i,
             response_message |-> "answer to prompt " \o ToString(i),
             response_errors |-> <<>> ]
      ELSE [ original_row_idx |-> i,
             response_message |-> None,
             response_errors |-> online.errors[i] ]

\* every row has been attempted: the run fails if require_all_responses is
\* set and a row failed, and else completes with one output row per input row
OnlineFinish ==
    /\ online.status = "running"
    /\ \A i \in 0..(NumRows - 1) : online.state[i] \in {"succeeded", "failed"}
    /\ online' =
         IF online.require_all_responses
              /\ \E i \in 0..(NumRows - 1) : online.state[i] = "failed"
           THEN [online EXCEPT !.status = "failed"]
           ELSE [online EXCEPT !.status = "completed",
                               !.output = [ k \in 1..NumRows |-> OnlineOutputRow(k - 1) ]]
    /\ UNCHANGED <<llmVars, batchVars, semVars, funcVars, crashes, limiter>>

\* no rate limiter in use
NoLimiter == [ status |-> "none" ]

\* the configured limits of the rate limiter, and the estimated token cost of
\* a request
max_requests_per_minute == 3
max_tokens_per_minute == 60
EstimatedTokens == 10

\* a burst of twice the requests-per-minute limit
Burst == 1..(2 * max_requests_per_minute)

\* the limiter with both counters full, and the requests of the burst issued
\* and not yet admitted
NewLimiter ==
    [ available_request_capacity |-> max_requests_per_minute,
      available_token_capacity |-> max_tokens_per_minute,
      state |-> [ r \in Burst |-> "waiting" ],
      refilled |-> 0 ]

\* both counters have capacity for a request of the estimated token cost
has_capacity ==
    /\ limiter.available_request_capacity >= 1
    /\ limiter.available_token_capacity >= EstimatedTokens

\* the outcome of an admission attempt: the request is admitted, or it stays
\* suspended and polls again
admission_rejecting(capacity) == IF capacity THEN "admitted" ELSE "rejected"

admission(capacity) == IF capacity THEN "admitted" ELSE "waiting"

\* request r asks for admission: with capacity in both counters it reserves
\* from both atomically and is dispatched
LimiterAttempt(r) ==
    /\ limiter # NoLimiter
    /\ limiter.state[r] = "waiting"
    /\ limiter' =
         IF has_capacity
           THEN [limiter EXCEPT
                   !.state[r] = admission(TRUE),
                   !.available_request_capacity = @ - 1,
                   !.available_token_capacity = @ - EstimatedTokens]
           ELSE [limiter EXCEPT !.state[r] = admission(FALSE)]
    /\ UNCHANGED <<llmVars, batchVars, semVars, funcVars, crashes, online>>

Min(a, b) == IF a <= b THEN a ELSE b

\* time passes: the counters refill, each up to its limit
LimiterRefill ==
    /\ limiter # NoLimiter
    /\ \/ limiter.available_request_capacity < max_requests_per_minute
       \/ limiter.available_token_capacity < max_tokens_per_minute
    /\ limiter' =
         [limiter EXCEPT
            !.available_request_capacity = Min(@ + 1, max_requests_per_minute),
            !.available_token_capacity =
                Min(@ + (max_tokens_per_minute \div max_requests_per_minute),
                    max_tokens_per_minute),
            !.refilled = IF limiter.available_request_capacity < max_requests_per_minute
                           THEN @ + 1 ELSE @]
    /\ UNCHANGED <<llmVars, batchVars, semVars, funcVars, crashes, online>>

(***************************************************************************)
(* Batch run: rows, requests and chunks                                    *)
(***************************************************************************)
Rows == 0..(NumRows - 1)

\* the chunks of the request set: batch b holds rows (b-1)*batch_size ...
NumBatches == (NumRows + batch_size - 1) \div batch_size
Batches == 1..NumBatches
RowsOf(b) == { i \in Rows : i \div batch_size = b - 1 }
RowSeq(b) == [ k \in 1..Cardinality(RowsOf(b)) |-> (b - 1) * batch_size + k - 1 ]

\* the GenericRequest of input row i
Prompt(i) == "prompt " \o ToString(i)
BatchModel == "claude-3-5-haiku-20241022"
GenericRequestOf(i) ==
    [ original_row_idx |-> i,
      model |-> BatchModel,
      messages |-> Prompt(i) ]

\* str(int) and int(str)
str(i) == ToString(i)
int(t) == IF \E i \in 0..(NumRows + 1) : str(i) = t
            THEN CHOOSE i \in 0..(NumRows + 1) : str(i) = t
            ELSE -1

\* litellm.get_max_tokens(model)
get_max_tokens(model) == 8192

\* anthropic_batch_request_processor.py:100-116
create_api_specific_request_batch_one_based(generic_request) ==
    [ custom_id |-> str(generic_request.original_row_idx + 1),
      params |-> [ model |-> generic_request.model,
                   max_tokens |-> get_max_tokens(BatchModel),
                   messages |-> generic_request.messages ] ]

create_api_specific_request_batch(generic_request) ==
    [ custom_id |-> str(generic_request.original_row_idx),
      params |-> [ model |-> generic_request.model,
                   max_tokens |-> get_max_tokens(BatchModel),
                   messages |-> generic_request.messages ] ]

\* anthropic_batch_request_processor.py:42-48: the limits of a batch
max_requests_per_batch == 100000

max_bytes_per_batch_divided == (256 \div 1024) \div 1024

max_bytes_per_batch == 256 * 1024 * 1024

\* the request as a line of the request file, and the bytes of a batch
json_dumps(request) ==
    "{\"custom_id\": \"" \o request.custom_id
      \o "\", \"params\": {\"model\": \"" \o request.params.model
      \o "\", \"max_tokens\": " \o ToString(request.params.max_tokens)
      \o ", \"messages\": \"" \o request.params.messages \o "\"}}"

RECURSIVE BatchBytes(_)
BatchBytes(requests) ==
    IF requests = <<>> THEN 0
    ELSE Len(json_dumps(Head(requests))) + 1 + BatchBytes(Tail(requests))

(***************************************************************************)
(* The provider: Anthropic message batches                                 *)
(***************************************************************************)
BatchId(b) == "msgbatch_" \o ToString(b)
RequestFile(b) == "requests_" \o ToString(b - 1) \o ".jsonl"

NoRemote == [ processing_status |-> "none", requests |-> <<>>, result_type |-> <<>> ]

NumOfType(r, t) == Cardinality({ k \in DOMAIN r.result_type : r.result_type[k] = t })

\* the MessageBatch the provider returns for a batch in state r
MessageBatchOf(r, b) ==
    [ id |-> BatchId(b),
      processing_status |-> r.processing_status,
      request_counts |-> [ processing |-> NumOfType(r, "processing"),
                           succeeded |-> NumOfType(r, "succeeded"),
                           errored |-> NumOfType(r, "errored"),
                           canceled |-> NumOfType(r, "canceled"),
                           expired |-> NumOfType(r, "expired") ],
      created_at |-> "created",
      ended_at |-> IF r.processing_status = "ended" THEN "ended" ELSE None ]

\* the provider's answer to a request, and its error for a request
Answer(messages) == "answer to " \o messages
ErrorOf(type, messages) ==
    [ type |-> "invalid_request_error", message |-> type \o " on " \o messages ]

\* the dump of the Message that answers a request with text
MessageOf(text) ==
    [ content |-> << [ type |-> "text", text |-> text ] >>,
      stop_reason |-> "end_turn",
      stop_sequence |-> None,
      usage |-> [ input_tokens |-> 1, output_tokens |-> 1 ] ]

\* the dump of one MessageBatchIndividualResponse: a succeeded result holds
\* the message, an errored result holds the error, a canceled or expired
\* result holds its type only
RawResult(custom_id, type, messages, text) ==
    [ custom_id |-> custom_id,
      result |-> CASE type = "succeeded" -> [ type |-> type, message |-> MessageOf(text) ]
                   [] type = "errored" -> [ type |-> type, error |-> ErrorOf(type, messages) ]
                   [] OTHER -> [ type |-> type ] ]

\* one record of the results stream
ResultOf(r, k) ==
    RawResult(r.requests[k].custom_id, r.result_type[k],
              r.requests[k].params.messages, Answer(r.requests[k].params.messages))

\* a request of an in-progress batch is processed
ProviderProcess(b) ==
    \E k \in DOMAIN remote[b].result_type, t \in {"succeeded", "errored"} :
        /\ remote[b].processing_status = "in_progress"
        /\ remote[b].result_type[k] = "processing"
        /\ LET types == [remote[b].result_type EXCEPT ![k] = t]
           IN remote' = [remote EXCEPT ![b] =
                [ processing_status |->
                      IF \E j \in DOMAIN types : types[j] = "processing"
                        THEN "in_progress" ELSE "ended",
                  requests |-> remote[b].requests,
                  result_type |-> types ]]
        /\ UNCHANGED <<nonBatchVars, creates, tracker, downloaded, responses, output,
                       cancelRun, cancelPending, lastOp>>

\* the batch expires: what is still processing expires
ProviderExpire(b) ==
    /\ remote[b].processing_status = "in_progress"
    /\ remote' = [remote EXCEPT ![b] =
         [ processing_status |-> "ended",
           requests |-> remote[b].requests,
           result_type |-> [ k \in DOMAIN remote[b].result_type |->
               IF remote[b].result_type[k] = "processing" THEN "expired"
               ELSE remote[b].result_type[k] ] ]]
    /\ UNCHANGED <<nonBatchVars, creates, tracker, downloaded, responses, output,
                   cancelRun, cancelPending, lastOp>>

\* a cancellation completes: what is still processing is canceled
ProviderCancelDone(b) ==
    /\ remote[b].processing_status = "canceling"
    /\ remote' = [remote EXCEPT ![b] =
         [ processing_status |-> "ended",
           requests |-> remote[b].requests,
           result_type |-> [ k \in DOMAIN remote[b].result_type |->
               IF remote[b].result_type[k] = "processing" THEN "canceled"
               ELSE remote[b].result_type[k] ] ]]
    /\ UNCHANGED <<nonBatchVars, creates, tracker, downloaded, responses, output,
                   cancelRun, cancelPending, lastOp>>

(***************************************************************************)
(* AnthropicBatchRequestProcessor (anthropic_batch_request_processor.py)   *)
(***************************************************************************)
\* GenericBatchStatus
GenericBatchStatus == {"CREATED", "SUBMITTED", "FINISHED", "FAILED", "CANCELLED"}
TerminalStatus == {"FINISHED", "FAILED", "CANCELLED"}

\* anthropic_batch_request_processor.py:54-69
parse_api_specific_request_counts(request_counts) ==
    LET failed == request_counts.canceled + request_counts.errored
                    + request_counts.expired
        succeeded == request_counts.succeeded
        processing == request_counts.processing
    IN [ failed |-> failed,
         succeeded |-> succeeded,
         total |-> processing + succeeded + failed,
         raw_request_counts_object |-> request_counts ]

\* GenericBatch(...), lines 88-98; raw_batch (the dump of the MessageBatch) is
\* left out
GenericBatch(batch, status, request_file) ==
    [ request_file |-> request_file,
      id |-> batch.id,
      created_at |-> batch.created_at,
      finished_at |-> batch.ended_at,
      status |-> status,
      request_counts |-> parse_api_specific_request_counts(batch.request_counts),
      raw_status |-> batch.processing_status ]

\* anthropic_batch_request_processor.py:71-98; reading processing_status of
\* an object that has no such attribute raises AttributeError
parse_api_specific_batch_object_in_progress_finished(batch, request_file) ==
    IF "processing_status" \notin DOMAIN batch THEN Raise("AttributeError")
    ELSE IF batch.processing_status \in {"cancelling"}
      THEN Return(GenericBatch(batch, "SUBMITTED", request_file))
    ELSE IF batch.processing_status \in {"ended", "in_progress"}
      THEN Return(GenericBatch(batch, "FINISHED", request_file))
    ELSE Raise("ValueError")

parse_api_specific_batch_object(batch, request_file) ==
    IF "processing_status" \notin DOMAIN batch THEN Raise("AttributeError")
    ELSE IF batch.processing_status \in {"cancelling", "in_progress"}
      THEN Return(GenericBatch(batch, "SUBMITTED", request_file))
    ELSE IF batch.processing_status \in {"ended"}
      THEN Return(GenericBatch(batch, "FINISHED", request_file))
    ELSE Raise("ValueError")

\* the Tracker's entry of a chunk that has not been submitted
CreatedBatch(b) ==
    [ request_file |-> RequestFile(b),
      id |-> None,
      created_at |-> None,
      finished_at |-> None,
      status |-> "CREATED",
      request_counts |-> [ failed |-> 0, succeeded |-> 0, total |-> 0,
                           raw_request_counts_object |->
                             [ processing |-> 0, succeeded |-> 0, errored |-> 0,
                               canceled |-> 0, expired |-> 0 ] ],
      raw_status |-> None ]

\* anthropic_batch_request_processor.py:172-190: the provider state after
\* batches.create(requests), and what submit_batch returns
created_remote(requests) ==
    [ processing_status |-> "in_progress",
      requests |-> requests,
      result_type |-> [ k \in DOMAIN requests |-> "processing" ] ]

submit_batch_without_request_file(b, requests, metadata) ==
    parse_api_specific_batch_object(MessageBatchOf(created_remote(requests), b), None)

submit_batch(b, requests, metadata) ==
    parse_api_specific_batch_object(MessageBatchOf(created_remote(requests), b),
                                    metadata.request_file)

\* anthropic_batch_request_processor.py:192-204; found = FALSE: the provider
\* answers NotFoundError
retrieve_batch(b, found) ==
    IF ~found THEN ReturnNone
    ELSE LET request_file == tracker[b].request_file
         IN parse_api_specific_batch_object(MessageBatchOf(remote[b], b), request_file)

\* anthropic_batch_request_processor.py:206-213; order is the order in which
\* the results stream yields the results
download_batch(b, order) ==
    [ k \in DOMAIN order |-> ResultOf(remote[b], order[k]) ]

\* an optional list: None or a list
NoneList == [ is_none |-> TRUE, items |-> <<>> ]
List(items) == [ is_none |-> FALSE, items |-> items ]

\* the texts that are JSON documents, and json.loads of one
JsonTexts == {"{\"answer\": 1}"}
json_loads(text) == "parsed " \o text

\* PromptFormatter.parse_response_message: without a response format the
\* text is the message; with one, the parsed text is the message, and a text
\* that does not parse gives no message and an error
parse_response_message(response_format, response_message_raw) ==
    IF response_format = None
      THEN [ message |-> response_message_raw, errors |-> NoneList ]
    ELSE IF response_message_raw \in JsonTexts
      THEN [ message |-> json_loads(response_message_raw), errors |-> NoneList ]
    ELSE [ message |-> None,
           errors |-> List(<<"Failed to parse response as JSON: "
                               \o response_message_raw>>) ]

\* litellm.completion_cost, and TokenUsage as a text
completion_cost(prompt, completion) == 2
TokenUsage(usage) ==
    ToString(usage.input_tokens) \o "+" \o ToString(usage.output_tokens)

\* d[k] of a dict raises KeyError when d has no key k
HasKey(d, k) == k \in DOMAIN d

\* str(error) of the error dict
StrError(error) ==
    "{'type': '" \o error.type \o "', 'message': '" \o error.message \o "'}"

\* the processor as parse_api_specific_response uses it
BatchProcessor(response_format) ==
    [ prompt_formatter |-> [ response_format |-> response_format ],
      config |-> [ model |-> BatchModel ] ]

\* GenericResponse(...), lines 160-170
GenericResponse(response_message, response_errors, raw_response, generic_request, batch, token_usage, cost) ==
    [ response_message |-> response_message,
      response_errors |-> response_errors,
      raw_response |-> raw_response,
      generic_request |-> generic_request,
      created_at |-> batch.created_at,
      finished_at |-> batch.finished_at,
      token_usage |-> token_usage,
      response_cost |-> cost ]

\* anthropic_batch_request_processor.py:118-170
parse_api_specific_response_error_dropped(self, raw_response, generic_request, batch) ==
    IF ~HasKey(raw_response, "result") THEN Raise("KeyError")
    ELSE IF ~HasKey(raw_response.result, "type") THEN Raise("KeyError")
    ELSE IF raw_response.result.type # "succeeded"
      THEN IF ~HasKey(raw_response.result, "error") THEN Raise("KeyError")
           ELSE IF ~HasKey(raw_response, "custom_id") THEN Raise("KeyError")
           ELSE Return(GenericResponse(None, NoneList, raw_response,
                                       generic_request, batch, None, None))
    ELSE IF ~HasKey(raw_response.result, "message") THEN Raise("KeyError")
    ELSE LET response_body == raw_response.result.message
         IN IF ~HasKey(response_body, "content") THEN Raise("KeyError")
            ELSE IF response_body.content = <<>> THEN Raise("IndexError")
            ELSE IF ~HasKey(response_body.content[1], "text") THEN Raise("KeyError")
            ELSE IF ~HasKey(response_body, "stop_reason") THEN Raise("KeyError")
            ELSE IF ~HasKey(response_body, "stop_sequence") THEN Raise("KeyError")
            ELSE
              LET response_message_raw == response_body.content[1].text
                  usage == IF HasKey(response_body, "usage") THEN response_body.usage
                           ELSE [ input_tokens |-> 0, output_tokens |-> 0 ]
                  parsed == parse_response_message(
                                self.prompt_formatter.response_format,
                                response_message_raw)
                  cost == completion_cost(generic_request.messages,
                                          response_message_raw)
              IN Return(GenericResponse(parsed.message, parsed.errors, raw_response,
                                        generic_request, batch, TokenUsage(usage),
                                        ToString(cost \div 2)))

parse_api_specific_response(self, raw_response, generic_request, batch) ==
    IF ~HasKey(raw_response, "result") THEN Raise("KeyError")
    ELSE IF ~HasKey(raw_response.result, "type") THEN Raise("KeyError")
    ELSE IF raw_response.result.type # "succeeded"
      THEN IF ~HasKey(raw_response.result, "error") THEN Raise("KeyError")
           ELSE IF ~HasKey(raw_response, "custom_id") THEN Raise("KeyError")
           ELSE LET error == raw_response.result.error
                IN Return(GenericResponse(None, List(<<StrError(error)>>), raw_response,
                                          generic_request, batch, None, None))
    ELSE IF ~HasKey(raw_response.result, "message") THEN Raise("KeyError")
    ELSE LET response_body == raw_response.result.message
         IN IF ~HasKey(response_body, "content") THEN Raise("KeyError")
            ELSE IF response_body.content = <<>> THEN Raise("IndexError")
            ELSE IF ~HasKey(response_body.content[1], "text") THEN Raise("KeyError")
            ELSE IF ~HasKey(response_body, "stop_reason") THEN Raise("KeyError")
            ELSE IF ~HasKey(response_body, "stop_sequence") THEN Raise("KeyError")
            ELSE
              LET response_message_raw == response_body.content[1].text
                  usage == IF HasKey(response_body, "usage") THEN response_body.usage
                           ELSE [ input_tokens |-> 0, output_tokens |-> 0 ]
                  parsed == parse_response_message(
                                self.prompt_formatter.response_format,
                                response_message_raw)
                  cost == completion_cost(generic_request.messages,
                                          response_message_raw)
              IN Return(GenericResponse(parsed.message, parsed.errors, raw_response,
                                        generic_request, batch, TokenUsage(usage),
                                        ToString(cost \div 2)))

\* anthropic_batch_request_processor.py:215-229; cancel_ok = FALSE: the
\* provider's batches.cancel raises.  The result tells what the call did.
cancel_batch(b, found, cancel_ok) ==
    LET request_file == tracker[b].request_file
        retrieved == retrieve_batch(b, found)
        Outcome(r, called, warned, error_logged) ==
            [ raised |-> r.raised,
              status |-> r.value.status,
              provider_cancel_called |-> called,
              cancelled_at_provider |-> called /\ cancel_ok,
              warned |-> warned,
              error_logged |-> error_logged ]
    IN IF retrieved.raised # "" THEN Outcome(retrieved, FALSE, FALSE, FALSE)
       ELSE IF retrieved.is_none
         \* batch_object is None: batch_object.status
         THEN Outcome(Raise("AttributeError"), FALSE, FALSE, FALSE)
       ELSE
         LET batch_object == retrieved.value
             reparsed == parse_api_specific_batch_object(batch_object, request_file)
         IN IF batch_object.status = "ended"
              THEN Outcome(reparsed, FALSE, TRUE, FALSE)
            ELSE IF cancel_ok /\ reparsed.raised = ""
              \* try: cancel, log, return
              THEN Outcome(reparsed, TRUE, FALSE, FALSE)
              \* except Exception: log the error, return
              ELSE Outcome(reparsed, TRUE, FALSE, TRUE)

(***************************************************************************)
(* The batch run that drives the adapter (BaseBatchRequestProcessor)       *)
(***************************************************************************)
NoOp ==
    [ op |-> "none", batch |-> 0, raised |-> "", remote_status |-> "none",
      not_found |-> FALSE,
      provider_cancel_called |-> FALSE, warned |-> FALSE, status |-> None ]

Op(op, b, raised, not_found, called, warned, status) ==
    [ op |-> op, batch |-> b, raised |-> raised,
      remote_status |-> remote[b].processing_status,
      not_found |-> not_found,
      provider_cancel_called |-> called, warned |-> warned, status |-> status ]

Running == cancelRun \in {"running", "failing"}

\* Submit: a chunk that is not recorded as submitted is submitted and the
\* returned GenericBatch is recorded in the Tracker
SubmitBatch(b) ==
    /\ ~Running
    /\ tracker[b].status = "CREATED"
    /\ LET requests == [ k \in DOMAIN RowSeq(b) |->
                           create_api_specific_request_batch(
                               GenericRequestOf(RowSeq(b)[k])) ]
           r == submit_batch(b, requests, [ request_file |-> RequestFile(b) ])
       IN /\ remote' = [remote EXCEPT ![b] = created_remote(requests)]
          /\ tracker' = IF r.raised = "" THEN [tracker EXCEPT ![b] = r.value]
                        ELSE tracker
          /\ lastOp' = Op("submit_batch", b, r.raised, FALSE, FALSE, FALSE, r.value.status)
          /\ creates' = [creates EXCEPT ![b] = @ + 1]
    /\ UNCHANGED <<nonBatchVars, downloaded, responses, output, cancelRun, cancelPending>>

\* Poll: the status of a SUBMITTED batch is retrieved and recorded
PollBatch(b) ==
    /\ ~Running
    /\ tracker[b].status = "SUBMITTED"
    /\ \E found \in BOOLEAN :
         LET r == retrieve_batch(b, found)
         IN /\ tracker' = IF r.raised = "" /\ ~r.is_none
                            THEN [tracker EXCEPT ![b] = r.value]
                            ELSE tracker
            /\ lastOp' = Op("retrieve_batch", b, r.raised, r.is_none, FALSE, r.is_none,
                            r.value.status)
    /\ UNCHANGED <<nonBatchVars, creates, remote, downloaded, responses, output,
                   cancelRun, cancelPending>>

\* the bijections of 1..n
Perms(n) == { f \in [1..n -> 1..n] : \A i, j \in 1..n : f[i] = f[j] => i = j }

\* the outcomes of parsing the results that match a request of the batch, in
\* the order of the results
RECURSIVE ParseResults(_, _, _)
ParseResults(results, b, batch) ==
    IF results = <<>> THEN <<>>
    ELSE LET raw == Head(results)
             row == int(raw.custom_id)
         IN (IF row \in RowsOf(b)
               THEN <<parse_api_specific_response(BatchProcessor(None), raw,
                                                  GenericRequestOf(row), batch)>>
               ELSE <<>>)
            \o ParseResults(Tail(results), b, batch)

\* the exception of the first outcome that is one ("" if none is)
FirstRaised(outcomes) ==
    IF \E k \in DOMAIN outcomes : outcomes[k].raised # ""
      THEN outcomes[CHOOSE k \in DOMAIN outcomes :
                      /\ outcomes[k].raised # ""
                      /\ \A j \in 1..(k - 1) : outcomes[j].raised = ""].raised
      ELSE ""

\* Download: the results of a FINISHED batch are fetched, parsed and appended
\* to the response log; an exception of parse_api_specific_response fails the
\* download
DownloadBatch(b) ==
    /\ ~Running
    /\ tracker[b].status = "FINISHED"
    /\ b \notin downloaded
    /\ \E order \in Perms(Len(remote[b].requests)) :
         LET outcomes == ParseResults(download_batch(b, order), b, tracker[b])
             raised == FirstRaised(outcomes)
         IN /\ responses' = IF raised = ""
                              THEN responses \o [ k \in DOMAIN outcomes |-> outcomes[k].value ]
                              ELSE responses
            /\ downloaded' = IF raised = "" THEN downloaded \cup {b} ELSE downloaded
            /\ lastOp' = Op("download_batch", b, raised, FALSE, FALSE, FALSE,
                            tracker[b].status)
    /\ UNCHANGED <<nonBatchVars, creates, remote, tracker, output, cancelRun, cancelPending>>

\* the responses sorted by original_row_idx
RECURSIVE InsertByRow(_, _)
InsertByRow(resp, s) ==
    IF s = <<>> THEN <<resp>>
    ELSE IF resp.generic_request.original_row_idx
              < Head(s).generic_request.original_row_idx
      THEN <<resp>> \o s
    ELSE <<Head(s)>> \o InsertByRow(resp, Tail(s))

RECURSIVE SortByRow(_)
SortByRow(s) ==
    IF s = <<>> THEN <<>> ELSE InsertByRow(Head(s), SortByRow(Tail(s)))

\* the run ends: every batch is downloaded and the output is built
CreateDataset ==
    /\ ~Running
    /\ downloaded = Batches
    /\ output = <<>>
    /\ output' = SortByRow(responses)
    /\ UNCHANGED <<nonBatchVars, creates, remote, tracker, downloaded, responses,
                   cancelRun, cancelPending, lastOp>>

\* cancel_batches starts: it cancels the batches recorded as submitted
CancelBatchesStart ==
    /\ ~Running
    /\ cancelRun' = "running"
    /\ cancelPending' = { b \in Batches : tracker[b].status = "SUBMITTED" }
    /\ UNCHANGED <<nonBatchVars, creates, remote, tracker, downloaded, responses, output, lastOp>>

\* cancel_batches calls cancel_batch on one of its batches and records the
\* batch it returns; an exception of cancel_batch fails cancel_batches
CancelBatch(b) ==
    /\ Running
    /\ b \in cancelPending
    /\ \E found \in BOOLEAN, cancel_ok \in BOOLEAN :
         LET c == cancel_batch(b, found, cancel_ok)
         IN /\ remote' = IF c.cancelled_at_provider
                              /\ remote[b].processing_status = "in_progress"
                           THEN [remote EXCEPT ![b].processing_status = "canceling"]
                           ELSE remote
            /\ tracker' = IF c.raised = ""
                            THEN [tracker EXCEPT ![b].status = c.status]
                            ELSE tracker
            /\ cancelRun' = IF c.raised = "" THEN cancelRun ELSE "failing"
            /\ lastOp' = Op("cancel_batch", b, c.raised, ~found,
                            c.provider_cancel_called, c.warned, c.status)
    /\ cancelPending' = cancelPending \ {b}
    /\ UNCHANGED <<nonBatchVars, creates, downloaded, responses, output>>

\* cancel_batches is over: it returns when every cancel_batch has returned,
\* and raises when one has raised
CancelBatchesEnd ==
    /\ \/ cancelRun = "running" /\ cancelPending = {} /\ cancelRun' = "returned"
       \/ cancelRun = "failing" /\ cancelRun' = "raised"
    /\ cancelPending' = {}
    /\ UNCHANGED <<nonBatchVars, creates, remote, tracker, downloaded, responses, output, lastOp>>

(***************************************************************************)
(* Crash and restart of the run on the same working directory              *)
(***************************************************************************)
MaxCrashes == 1

\* chunk b is recorded in the Tracker: the Tracker holds a batch for the
\* request file of the chunk
Recorded(b) ==
    \E c \in Batches : tracker[c].id # None /\ tracker[c].request_file = RequestFile(b)

\* the process dies between two operations and the run is started again on
\* the same working directory: the Tracker, the response log and the output
\* are on disk, what the process held in memory is lost
Crash ==
    /\ crashes < MaxCrashes
    /\ crashes' = crashes + 1
    /\ cancelRun' = "idle"
    /\ cancelPending' = {}
    /\ lastOp' = NoOp
    /\ UNCHANGED <<llmVars, semVars, funcVars, online, limiter, creates,
                   remote, tracker, downloaded, responses, output>>

\* the process dies inside submit_batch, after the provider has created the
\* batch (line 187) and before the returned GenericBatch is recorded
CrashDuringSubmit(b) ==
    /\ crashes < MaxCrashes
    /\ ~Running
    /\ ~Recorded(b)
    /\ LET requests == [ k \in DOMAIN RowSeq(b) |->
                           create_api_specific_request_batch(
                               GenericRequestOf(RowSeq(b)[k])) ]
       IN remote' = [remote EXCEPT ![b] = created_remote(requests)]
    /\ creates' = [creates EXCEPT ![b] = @ + 1]
    /\ crashes' = crashes + 1
    /\ cancelRun' = "idle"
    /\ cancelPending' = {}
    /\ lastOp' = NoOp
    /\ UNCHANGED <<llmVars, semVars, funcVars, online, limiter,
                   tracker, downloaded, responses, output>>

(***************************************************************************)
(* parse_api_specific_response as a function of its arguments              *)
(***************************************************************************)
\* a batch recorded as FINISHED
FinishedBatch ==
    GenericBatch(MessageBatchOf([ processing_status |-> "ended",
                                  requests |-> <<>>, result_type |-> <<>> ], 1),
                 "FINISHED", RequestFile(1))

\* the result records of the request of row i: the four result types, a
\* succeeded result whose text is a JSON document, and malformed records
WellFormedRecords(i) ==
    { RawResult(str(i), "succeeded", Prompt(i), text) :
        text \in {Answer(Prompt(i))} \cup JsonTexts }
    \cup { RawResult(str(i), type, Prompt(i), "") :
             type \in {"errored", "canceled", "expired"} }

MalformedRecords(i) ==
    { [ custom_id |-> str(i) ],
      [ custom_id |-> str(i), result |-> [ message |-> MessageOf(Answer(Prompt(i))) ] ],
      [ result |-> [ type |-> "errored", error |-> ErrorOf("errored", Prompt(i)) ] ],
      [ custom_id |-> str(i), result |-> [ type |-> "succeeded" ] ],
      [ custom_id |-> str(i),
        result |-> [ type |-> "succeeded",
                     message |-> [ content |-> <<>>,
                                   stop_reason |-> "end_turn",
                                   stop_sequence |-> None ] ] ],
      [ custom_id |-> str(i),
        result |-> [ type |-> "succeeded",
                     message |-> [ content |-> << [ type |-> "tool_use",
                                                    name |-> "lookup" ] >>,
                                   stop_reason |-> "tool_use",
                                   stop_sequence |-> None ] ] ],
      [ custom_id |-> str(i),
        result |-> [ type |-> "succeeded",
                     message |-> [ content |-> << [ type |-> "text",
                                                    text |-> Answer(Prompt(i)) ] >>,
                                   stop_reason |-> "end_turn",
                                   stop_sequence |-> None ] ] ] }

ParseArgs ==
    UNION { { [ self |-> BatchProcessor(response_format),
                raw_response |-> raw,
                generic_request |-> GenericRequestOf(i),
                batch |-> FinishedBatch ] :
                response_format \in {None} \cup Formats,
                raw \in WellFormedRecords(i) \cup MalformedRecords(i) } :
            i \in Rows }

\* parse_api_specific_response is applied to the arguments
ParseResponse ==
    /\ returned = NotCalled
    /\ returned' = parse_api_specific_response(args.self, args.raw_response,
                                               args.generic_request, args.batch)
    /\ UNCHANGED <<llmVars, batchVars, semVars, onlineVars, args>>

(***************************************************************************)
(* Concurrency of the batch operations (lines 50-52, 172-229)              *)
(***************************************************************************)
\* anthropic_batch_request_processor.py:50-52
max_concurrent_batch_operations == 100

\* the processor's semaphore: asyncio.Semaphore(max_concurrent_batch_operations)
NewSemaphore == max_concurrent_batch_operations

\* the operations that make one provider call
SingleCallOps == {"submit_batch", "retrieve_batch", "download_batch"}

\* the number of `async with self.semaphore` blocks that enclose the first
\* provider call of an operation: lines 186, 193, 207, and for cancel_batch
\* line 216 around the call of retrieve_batch (line 193)
semaphore_depth_download_unguarded(op) ==
    CASE op = "submit_batch" -> 1
      [] op = "retrieve_batch" -> 1
      [] op = "download_batch" -> 0
      [] op = "cancel_batch" -> 2

semaphore_depth(op) ==
    CASE op = "submit_batch" -> 1
      [] op = "retrieve_batch" -> 1
      [] op = "download_batch" -> 1
      [] op = "cancel_batch" -> 2

\* submit_batch, retrieve_batch or download_batch is called: it enters its
\* `async with self.semaphore` and starts its provider call
BeginOperation(op) ==
    LET h == semaphore_depth(op)
    IN /\ semaphore >= h
       /\ semaphore' = semaphore - h
       /\ inflight' = [inflight EXCEPT ![h] = @ + 1]
       /\ UNCHANGED <<llmVars, batchVars, funcVars, onlineVars, waiting>>

\* the provider call of an operation that holds at most one permit returns or
\* raises: the operation leaves its `async with` block and is over.  This is
\* also the end of cancel_batch (lines 222-229).
EndOperation ==
    \E h \in {0, 1} :
        /\ inflight[h] > 0
        /\ inflight' = [inflight EXCEPT ![h] = @ - 1]
        /\ semaphore' = semaphore + h
        /\ UNCHANGED <<llmVars, batchVars, funcVars, onlineVars, waiting>>

\* cancel_batch is called: it enters its `async with self.semaphore` (line 216)
BeginCancel ==
    /\ semaphore > 0
    /\ semaphore' = semaphore - 1
    /\ waiting' = waiting + 1
    /\ UNCHANGED <<llmVars, batchVars, funcVars, onlineVars, inflight>>

\* the retrieve_batch that cancel_batch calls (line 218) enters its own
\* `async with self.semaphore` (line 193) and starts batches.retrieve
CancelRetrieve ==
    /\ waiting > 0
    /\ semaphore >= semaphore_depth("cancel_batch") - 1
    /\ semaphore' = semaphore - (semaphore_depth("cancel_batch") - 1)
    /\ waiting' = waiting - 1
    /\ inflight' = [inflight EXCEPT ![semaphore_depth("cancel_batch")] = @ + 1]
    /\ UNCHANGED <<llmVars, batchVars, funcVars, onlineVars>>

\* the retrieve_batch of a cancel_batch returns and releases its permit; then
\* cancel_batch starts batches.cancel (line 223), or, the batch not found,
\* raises AttributeError (line 219) and releases its own permit
CancelRetrieveReturns ==
    \E found \in BOOLEAN :
        /\ inflight[2] > 0
        /\ inflight' = IF found
                         THEN [inflight EXCEPT ![2] = @ - 1, ![1] = @ + 1]
                         ELSE [inflight EXCEPT ![2] = @ - 1]
        /\ semaphore' = IF found THEN semaphore + 1 ELSE semaphore + 2
        /\ UNCHANGED <<llmVars, batchVars, funcVars, onlineVars, waiting>>

\* the provider calls in flight, and the permits the operations hold
CallsInFlight == inflight[0] + inflight[1] + inflight[2]
PermitsHeld == inflight[1] + 2 * inflight[2] + waiting

(***************************************************************************)
(* Batch claims                                                            *)
(***************************************************************************)
\* the original_row_idx of the responses, in order
RowsIn(s) == [ k \in DOMAIN s |-> s[k].generic_request.original_row_idx ]

\* resp carries what the provider produced for input row i
IsResultOfRow(resp, i) ==
    /\ resp.generic_request.original_row_idx = i
    /\ IF resp.raw_response.result.type = "succeeded"
         THEN resp.response_message = Answer(Prompt(i))
         ELSE resp.response_errors
                = List(<<StrError(ErrorOf(resp.raw_response.result.type, Prompt(i)))>>)

\* C5: whatever the order in which the requests complete, the final output
\* has one row per input row and its row i is the result of input row i.
C5_OrderRestoration ==
    output # <<>> =>
        /\ Len(output) = NumRows
        /\ \A i \in Rows : IsResultOfRow(output[i + 1], i)

C5_Witness ==
    /\ output # <<>>
    /\ RowsIn(responses) # RowsIn(output)
    /\ \A i \in Rows : IsResultOfRow(output[i + 1], i)

\* the moves of the status state machine of GenericBatch
AllowedTransitions ==
    { <<"CREATED", "SUBMITTED">>, <<"SUBMITTED", "FINISHED">>,
      <<"SUBMITTED", "FAILED">>, <<"SUBMITTED", "CANCELLED">> }

\* C6: the recorded status of a batch only moves CREATED -> SUBMITTED and
\* SUBMITTED -> FINISHED, FAILED or CANCELLED, so a terminal status never
\* changes, and results are downloaded only from a batch recorded as FINISHED.
C6_StatusLifecycle ==
    [][ \A b \in Batches :
          /\ tracker'[b].status # tracker[b].status
               => <<tracker[b].status, tracker'[b].status>> \in AllowedTransitions
          /\ (b \in downloaded' /\ b \notin downloaded)
               => tracker[b].status = "FINISHED" ]_vars

C6_Witness ==
    /\ lastOp.op = "download_batch"
    /\ tracker[lastOp.batch].status = "FINISHED"
    /\ lastOp.batch \in downloaded
    /\ tracker[lastOp.batch].raw_status = "ended"

\* C7: when the cancel call over a run with submitted batches is over, every
\* batch of the run has status FINISHED or CANCELLED and none is SUBMITTED.
C7_CancelLeavesNoBatchInFlight ==
    [][ (cancelRun \in {"running", "failing"} /\ cancelRun' \in {"returned", "raised"})
          => \A b \in Batches :
               tracker'[b].status \in {"CREATED", "FINISHED", "CANCELLED"} ]_vars

\* C8: cancel_batch on a batch that has already ended issues no provider
\* cancel call, logs a warning and returns the batch with its terminal status.
C8_CancelOfEndedBatchIsNoOp ==
    (lastOp.op = "cancel_batch" /\ ~lastOp.not_found /\ lastOp.remote_status = "ended")
    => /\ ~lastOp.provider_cancel_called
       /\ lastOp.warned
       /\ lastOp.raised = ""
       /\ lastOp.status \in TerminalStatus

\* C9: cancel_batch on a batch that has not ended issues a provider cancel
\* call and returns the batch with status CANCELLED, whether or not the
\* provider call raises; it does not raise.
C9_CancelRecordsCancelled ==
    (lastOp.op = "cancel_batch" /\ ~lastOp.not_found
       /\ lastOp.remote_status = "in_progress")
    => /\ lastOp.provider_cancel_called
       /\ lastOp.raised = ""
       /\ lastOp.status = "CANCELLED"

\* how a batch ended at the provider
UserCancelled(b) ==
    /\ remote[b].processing_status = "ended"
    /\ NumOfType(remote[b], "canceled") > 0

ProviderFailed(b) ==
    /\ remote[b].processing_status = "ended"
    /\ NumOfType(remote[b], "canceled") = 0
    /\ NumOfType(remote[b], "succeeded") = 0

\* C10: a batch recorded after it ended is recorded CANCELLED if the user
\* cancelled it and FAILED if the provider failed it, never FINISHED.
C10_CancelDistinctFromFailure ==
    \A b \in Batches :
        tracker[b].raw_status = "ended"
        => /\ UserCancelled(b) => tracker[b].status = "CANCELLED"
           /\ ProviderFailed(b) => tracker[b].status = "FAILED"

\* the batches that have been submitted, and the least n with n * d >= m
Submitted == { b \in Batches : remote[b].processing_status # "none" }
CeilDiv(m, d) == CHOOSE n \in 0..m : n * d >= m /\ (n - 1) * d < m

C11_NotFoundIsNotAnException ==
    (lastOp.op \in {"retrieve_batch", "cancel_batch"} /\ lastOp.not_found)
    => lastOp.raised = ""

\* C12: under any burst of submit_batch, retrieve_batch, download_batch and
\* cancel_batch calls, every provider call in flight holds a permit of the
\* semaphore, the permits held and the free permits add up to
\* max_concurrent_batch_operations, and so at most that many provider calls
\* are in flight.
C12_BoundedConcurrency ==
    /\ inflight[0] = 0
    /\ semaphore >= 0
    /\ PermitsHeld + semaphore = max_concurrent_batch_operations
    /\ CallsInFlight <= max_concurrent_batch_operations

C12_Witness ==
    /\ CallsInFlight = max_concurrent_batch_operations
    /\ semaphore = 0

\* a response field is populated: a message that is not None, a list of
\* errors that is not None and not empty
HasMessage(resp) == resp.response_message # None
HasErrors(resp) == ~resp.response_errors.is_none /\ resp.response_errors.items # <<>>

\* C13: every GenericResponse that parse_api_specific_response returns has
\* exactly one of response_message and response_errors populated: for a
\* result that is not succeeded no message and a non-empty error list, for a
\* succeeded result a message and no errors or, when the text does not
\* parse, no message and a non-empty error list.
C13_ExactlyOneOfMessageAndErrors ==
    returned.raised = ""
    => LET resp == returned.value
       IN /\ HasMessage(resp) # HasErrors(resp)
          /\ HasMessage(resp) => resp.response_errors.is_none
          /\ args.raw_response.result.type # "succeeded"
               => ~HasMessage(resp) /\ HasErrors(resp)

C13_Witness ==
    /\ returned.raised = ""
    /\ args.raw_response.result.type = "succeeded"
    /\ args.self.prompt_formatter.response_format # None
    /\ ~HasMessage(returned.value)
    /\ HasErrors(returned.value)

\* C14: for every raw result record, whatever its result type and also when
\* it is malformed, parse_api_specific_response returns a GenericResponse and
\* does not raise; for a record that is not succeeded the response carries
\* the original error text in response_errors and no message, token usage or
\* cost.
C14_BadRecordsArePerRowErrors ==
    returned # NotCalled
    => /\ returned.raised = ""
       /\ args.raw_response.result.type # "succeeded"
            => /\ returned.value.response_errors
                    = List(<<StrError(args.raw_response.result.error)>>)
               /\ returned.value.response_message = None
               /\ returned.value.token_usage = None
               /\ returned.value.response_cost = None

(***************************************************************************)
(* Claims about the entry points and the function hash                     *)
(***************************************************************************)
\* the processors that are not batch processors
OnlineProcessors == {"OpenAIOnlineRequestProcessor", "LiteLLMOnlineRequestProcessor"}

\* C15: a call with batch_cancel=True on a processor that is not a batch
\* processor raises before any work: before the metadata database is opened
\* in the cache directory, before the metadata record is stored and before
\* run or cancel_batches is invoked.
C15_CancelOnOnlineProcessorFailsBeforeWork ==
    (IsCall(cur) /\ cur.input.batch_cancel
       /\ cur.self.request_processor.class \in OnlineProcessors)
    => /\ cur.raised = "ValueError"
       /\ cur.effects = <<>>

\* the cache root of a call: the working_dir argument if given, else
\* CURATOR_CACHE_DIR, else the default
CacheRoot(c) ==
    IF c.input.working_dir # None THEN c.input.working_dir
    ELSE IF c.input.cache_dir_env # None THEN c.input.cache_dir_env
    ELSE "/home/user/.cache/curator"

InvokesProcessor(c) == IsCall(c) /\ c.processor_call.op \in {"run", "cancel_batches"}

\* the records the call stored in the metadata database, in order
StoredRecords(c) ==
    LET stores == SelectSeq(c.effects, LAMBDA e : e.op = "store_metadata")
    IN [ k \in DOMAIN stores |-> stores[k].record ]

\* C17: every call of LLM.__call__ that invokes the processor passes it the
\* directory <cache root>/<fingerprint>, the cache root being the working_dir
\* argument if given, else CURATOR_CACHE_DIR, else the default; the run_hash
\* of the stored metadata record is that fingerprint; and two calls with the
\* same cache root get the same directory exactly when their fingerprints
\* are equal.
C17_WorkingDirNamedByFingerprint ==
    /\ InvokesProcessor(cur)
         => /\ cur.processor_call.working_dir = CacheRoot(cur) \o "/" \o cur.fingerprint
            /\ \A k \in DOMAIN StoredRecords(cur) :
                   StoredRecords(cur)[k].run_hash = cur.fingerprint
    /\ (InvokesProcessor(prev) /\ InvokesProcessor(cur)
          /\ CacheRoot(prev) = CacheRoot(cur))
         => ((prev.processor_call.working_dir = cur.processor_call.working_dir)
               <=> (prev.fingerprint = cur.fingerprint))

C17_Witness ==
    /\ InvokesProcessor(prev) /\ InvokesProcessor(cur)
    /\ cur.input.working_dir # None /\ cur.input.cache_dir_env # None
    /\ prev.input.cache_dir_env = None
    /\ CacheRoot(prev) = CacheRoot(cur)
    /\ prev.fingerprint # cur.fingerprint
    /\ cur.processor_call.working_dir = cur.input.working_dir \o "/" \o cur.fingerprint
    /\ prev.processor_call.working_dir # cur.processor_call.working_dir

\* an invocation of an entry point: LLM.__call__ or Prompter._completions
IsEntryPointCall(c) == c.kind \in {"call", "prompter"}

MetadataFields ==
    {"timestamp", "dataset_hash", "prompt_func", "parse_func", "model_name",
     "response_format", "run_hash", "batch_mode"}

\* C18: every invocation of LLM.__call__ or Prompter._completions calls
\* store_metadata exactly once, before the processor is invoked, with a
\* record of timestamp, dataset hash, prompt and parse function source, model
\* name, schema or "text", fingerprint and batch mode.
C18_MetadataStoredOncePerRun ==
    IsEntryPointCall(cur)
    => /\ Len(StoredRecords(cur)) = 1
       /\ DOMAIN StoredRecords(cur)[1] = MetadataFields
       /\ StoredRecords(cur)[1].run_hash = cur.fingerprint
       /\ \A j, k \in DOMAIN cur.effects :
            (cur.effects[j].op = "store_metadata"
               /\ cur.effects[k].op \in {"run", "cancel_batches"}) => j < k

\* two functions have the same code: the same bytecode with its constants and
\* names, under the same name and with the same parameters
SameCode(f, g) ==
    /\ f # None /\ g # None
    /\ FuncObject(f).co_code = FuncObject(g).co_code
    /\ FuncObject(f).name = FuncObject(g).name
    /\ FuncObject(f).co_argcount = FuncObject(g).co_argcount

\* C19: _get_function_hash returns a hash for every function; for two
\* functions with the same code that differ only in defining-file path,
\* module name, qualified name or first line number it returns the same hash,
\* and for None it returns the hash of the empty string.
C19_FunctionHashIgnoresIncidentalState ==
    returned # NotCalled
    => /\ returned.f.raised = "" /\ returned.g.raised = ""
       /\ SameCode(args.f, args.g) => returned.f.value = returned.g.value
       /\ args.f = None => returned.f.value = xxh64("")

IsPrompterCall(c) == c.kind = "prompter"

\* the generation parameters of a Prompter, and its other arguments
SamplingParams(c) ==
    << c.input.temperature, c.input.top_p,
       c.input.presence_penalty, c.input.frequency_penalty >>
OtherPrompterArgs(c) ==
    [ c.input EXCEPT !.temperature = None, !.top_p = None,
                     !.presence_penalty = None, !.frequency_penalty = None ]

\* C20: two Prompter instances that differ only in temperature, top_p,
\* presence_penalty or frequency_penalty are given different fingerprints and
\* different working directories by Prompter._completions.
C20_PrompterFingerprintCoversSamplingParams ==
    (IsPrompterCall(prev) /\ IsPrompterCall(cur) /\ prev.python = cur.python
       /\ OtherPrompterArgs(prev) = OtherPrompterArgs(cur)
       /\ SamplingParams(prev) # SamplingParams(cur))
    => /\ prev.raised = "" /\ cur.raised = ""
       /\ prev.fingerprint # cur.fingerprint
       /\ prev.run_cache_dir # cur.run_cache_dir

(***************************************************************************)
(* Claims about the parse function, cancellation and the status mapping    *)
(***************************************************************************)
\* two invocations of the same entry point in the same environment, with
\* caching enabled, whose arguments differ in parse_func and in nothing else
DifferOnlyInParseFunc(p, q) ==
    /\ IsEntryPointCall(p) /\ p.kind = q.kind
    /\ p.input.parse_func # q.input.parse_func
    /\ [p.input EXCEPT !.parse_func = None] = [q.input EXCEPT !.parse_func = None]
    /\ IsCall(p) => (CacheEnabled(p) /\ CacheEnabled(q))
    /\ IsPrompterCall(p) => p.python = q.python

\* C24: two runs that differ only in parse_func get the same fingerprint and
\* the same working directory, and both invoke the processor's run, with
\* different parse_func_hash.
C24_ParseFuncOutsideFingerprint ==
    DifferOnlyInParseFunc(prev, cur)
    => /\ prev.fingerprint # None
       /\ prev.fingerprint = cur.fingerprint
       /\ prev.run_cache_dir = cur.run_cache_dir
       /\ prev.processor_call.op = "run" /\ cur.processor_call.op = "run"
       /\ prev.processor_call.working_dir = cur.processor_call.working_dir
       /\ prev.processor_call.parse_func_hash # cur.processor_call.parse_func_hash

\* the processors that are batch processors
BatchProcessors == {"OpenAIBatchRequestProcessor", "AnthropicBatchRequestProcessor"}

\* C25: a call of LLM.__call__ with batch_cancel=True never invokes run; on
\* a batch processor, whichever backend, it invokes cancel_batches on the
\* directory named by the fingerprint and does not raise; it raises
\* ValueError only when the processor is not a batch processor.
C25_CancelAcceptedForEveryBatchProcessor ==
    (IsCall(cur) /\ cur.input.batch_cancel)
    => /\ cur.processor_call.op # "run"
       /\ cur.self.request_processor.class \in BatchProcessors
            => /\ cur.raised = ""
               /\ cur.processor_call.op = "cancel_batches"
               /\ cur.processor_call.working_dir = cur.run_cache_dir
       /\ cur.raised # "" => cur.self.request_processor.class \notin BatchProcessors

\* the processing statuses of a message batch that the provider documents
DocumentedStatuses == {"in_progress", "canceling", "ended"}

\* C26: for every message batch the provider can return, whose processing
\* status is "in_progress", "canceling" or "ended",
\* parse_api_specific_batch_object returns without raising, with status
\* FINISHED for "ended" and SUBMITTED for the other two.
C26_StatusMappingTotal ==
    \A b \in Batches :
        remote[b].processing_status \in DocumentedStatuses
        => LET r == parse_api_specific_batch_object(MessageBatchOf(remote[b], b),
                                                    RequestFile(b))
           IN /\ r.raised = ""
              /\ r.value.status = IF remote[b].processing_status = "ended"
                                    THEN "FINISHED" ELSE "SUBMITTED"

\* the requests the provider holds: <<b, k>> is request k of batch b
SubmittedRequests ==
    UNION { { <<b, k>> : k \in DOMAIN remote[b].requests } : b \in Submitted }

C27_ConcurrentCancelsComplete ==
    ~ ( /\ waiting = max_concurrent_batch_operations
        /\ semaphore = 0
        /\ CallsInFlight = 0 )

\* the processors Prompter.__init__ constructs
PrompterProcessors ==
    {"OpenAIBatchRequestProcessor", "OpenAIOnlineRequestProcessor",
     "LiteLLMOnlineRequestProcessor"}

\* the number of parameters of a user function
Arity(func) == FuncObject(func).co_argcount

\* C28: Prompter.__init__ raises ValueError, and constructs no request
\* processor, for a prompt_func of more than one parameter and for a
\* parse_func whose number of parameters is not two; for a prompt_func of at
\* most one parameter and a parse_func that is None or has two parameters it
\* raises nothing for the user functions, and with a known backend it
\* constructs the request processor and returns.
C28_PrompterRejectsWrongArity ==
    returned # NotCalled
    => IF Arity(args.prompt_func) > 1
            \/ (args.parse_func # None /\ Arity(args.parse_func) # 2)
         THEN /\ returned.outcome.raised = "ValueError"
              /\ \A k \in DOMAIN returned.constructed :
                   returned.constructed[k] \notin PrompterProcessors
         ELSE /\ returned.constructed # <<>>
              /\ args.backend \in {"openai", "litellm"}
                   => /\ returned.outcome.raised = ""
                      /\ \E k \in DOMAIN returned.constructed :
                           returned.constructed[k] \in PrompterProcessors

C28_Witness ==
    /\ returned # NotCalled
    /\ Arity(args.prompt_func) = 1
    /\ args.parse_func # None /\ Arity(args.parse_func) = 3
    /\ args.backend = "openai"
    /\ returned.outcome.raised = "ValueError"
    /\ returned.constructed = <<>>

\* the operations on a batch that has been submitted
FurtherOps == {"retrieve_batch", "download_batch", "cancel_batch"}

OnlineFailedRows == { i \in Rows : online.state[i] = "failed" }
OnlineAttempted == \A i \in Rows : online.state[i] \in {"succeeded", "failed"}

\* C21: a request is never called more than 1 + max_retries times; a request
\* is recorded as failed only after it has failed, with a transient error,
\* its first attempt and exactly max_retries retries; the run ends only when
\* every row has been attempted; it reports failure exactly when
\* require_all_responses is set and a row failed, and else it completes with
\* as many output rows as input rows, output row i being that of input row i
\* and a failed row carrying its errors and no content.
C21_RetryExhaustion ==
    /\ \A i \in Rows :
         /\ online.calls[i] <= 1 + max_retries
         /\ online.state[i] = "failed"
              => /\ online.calls[i] = 1 + max_retries
                 /\ online.errors[i] = [ k \in 1..(1 + max_retries) |-> TransientError ]
    /\ online.status \in {"completed", "failed"} => OnlineAttempted
    /\ online.status = "failed"
         <=> (online.status # "running" /\ online.require_all_responses
                /\ OnlineFailedRows # {})
    /\ online.status = "completed"
         => /\ Len(online.output) = NumRows
            /\ \A i \in Rows :
                 /\ online.output[i + 1].original_row_idx = i
                 /\ i \in OnlineFailedRows
                      <=> /\ online.output[i + 1].response_message = None
                          /\ online.output[i + 1].response_errors # <<>>

C21_Witness ==
    /\ online.status = "completed"
    /\ ~online.require_all_responses
    /\ Cardinality(OnlineFailedRows) = 1
    /\ \A i \in OnlineFailedRows : online.calls[i] = 1 + max_retries
    /\ Len(online.output) = NumRows

LimiterAdmitted == { r \in Burst : limiter.state[r] = "admitted" }

\* in a burst of 2R requests against a limit of R requests per minute no
\* request is rejected, and no more requests are admitted than the R of the
\* full counter plus the capacity refilled since
LimiterNeverRejects ==
    /\ \A r \in Burst : limiter.state[r] \in {"waiting", "admitted"}
    /\ Cardinality(LimiterAdmitted) <= max_requests_per_minute + limiter.refilled
    /\ limiter.available_request_capacity \in 0..max_requests_per_minute
    /\ limiter.available_token_capacity \in 0..max_tokens_per_minute

\* C22: in a burst of 2R requests against a requests-per-minute limit of R,
\* no request is rejected, at most R requests are admitted before capacity
\* refills, the others stay suspended, and every suspended request is
\* eventually admitted.
C22_LimiterDelaysNeverRejects ==
    /\ []LimiterNeverRejects
    /\ \A r \in Burst : (limiter.state[r] = "waiting") ~> (limiter.state[r] = "admitted")

C22_Witness ==
    /\ Cardinality(LimiterAdmitted) = max_requests_per_minute
    /\ limiter.refilled = 0
    /\ limiter.available_request_capacity = 0
    /\ \E r \in Burst : limiter.state[r] = "waiting"

(***************************************************************************)
(* Specifications                                                          *)
(***************************************************************************)
InitBatch ==
    /\ remote = [ b \in Batches |-> NoRemote ]
    /\ tracker = [ b \in Batches |-> CreatedBatch(b) ]
    /\ downloaded = {}
    /\ responses = <<>>
    /\ output = <<>>
    /\ cancelRun = "idle"
    /\ cancelPending = {}
    /\ lastOp = NoOp
    /\ creates = [ b \in Batches |-> 0 ]

InitSem ==
    /\ semaphore = NewSemaphore
    /\ inflight = [ h \in 0..2 |-> 0 ]
    /\ waiting = 0

InitFunc ==
    /\ args = <<>>
    /\ returned = NotCalled

InitOnline ==
    /\ crashes = 0
    /\ online = NoOnlineRun
    /\ limiter = NoLimiter

InitLLM ==
    /\ prev = NoCall
    /\ cur = NoCall
    /\ InitBatch
    /\ InitSem
    /\ InitFunc
    /\ InitOnline

NextLLM == LLMCall \/ PrompterCall

\* invocations of LLM.__call__ and of Prompter.__call__
SpecLLM == InitLLM /\ [][NextLLM]_vars

Init ==
    /\ prev = NoCall
    /\ cur = NoCall
    /\ InitBatch
    /\ InitSem
    /\ InitFunc
    /\ InitOnline

Next ==
    \/ \E b \in Batches : SubmitBatch(b)
    \/ \E b \in Batches : PollBatch(b)
    \/ \E b \in Batches : DownloadBatch(b)
    \/ CreateDataset
    \/ CancelBatchesStart
    \/ \E b \in Batches : CancelBatch(b)
    \/ CancelBatchesEnd
    \/ \E b \in Batches : ProviderProcess(b)
    \/ \E b \in Batches : ProviderExpire(b)
    \/ \E b \in Batches : ProviderCancelDone(b)

\* a batch run over the Anthropic adapter and the provider
Spec == Init /\ [][Next]_vars

InitOnlineRun ==
    /\ prev = NoCall
    /\ cur = NoCall
    /\ InitBatch
    /\ InitSem
    /\ InitFunc
    /\ crashes = 0
    /\ online \in { NewOnlineRun(r) : r \in BOOLEAN }
    /\ limiter = NoLimiter

NextOnline ==
    \/ \E i \in Rows : OnlineSend(i)
    \/ \E i \in Rows : OnlineSuccess(i)
    \/ \E i \in Rows : OnlineTransientFailure(i)
    \/ OnlineFinish

\* a run of the online request processor with transient errors
SpecOnline == InitOnlineRun /\ [][NextOnline]_vars

InitLimiter ==
    /\ prev = NoCall
    /\ cur = NoCall
    /\ InitBatch
    /\ InitSem
    /\ InitFunc
    /\ crashes = 0
    /\ online = NoOnlineRun
    /\ limiter = NewLimiter

NextLimiter ==
    \/ \E r \in Burst : LimiterAttempt(r)
    \/ LimiterRefill

\* a burst of requests against the rate limiter; the counters keep
\* refilling and a suspended request keeps polling
SpecLimiter ==
    /\ InitLimiter
    /\ [][NextLimiter]_vars
    /\ WF_vars(LimiterRefill)
    /\ \A r \in Burst : WF_vars(LimiterAttempt(r))

NextRestart ==
    \/ Next
    \/ Crash
    \/ \E b \in Batches : CrashDuringSubmit(b)

\* a batch run that is interrupted and resumed on its working directory
SpecRestart == Init /\ [][NextRestart]_vars

NextSem ==
    \/ \E op \in SingleCallOps : BeginOperation(op)
    \/ EndOperation
    \/ BeginCancel
    \/ CancelRetrieve
    \/ CancelRetrieveReturns

InitParse ==
    /\ prev = NoCall
    /\ cur = NoCall
    /\ InitBatch
    /\ InitSem
    /\ InitOnline
    /\ args \in ParseArgs
    /\ returned = NotCalled

NextParse == ParseResponse

\* parse_api_specific_response on every result record
SpecParse == InitParse /\ [][NextParse]_vars

InitHash ==
    /\ prev = NoCall
    /\ cur = NoCall
    /\ InitBatch
    /\ InitSem
    /\ InitOnline
    /\ args \in HashArgs
    /\ returned = NotCalled

NextHash == PrompterGetFunctionHash \/ LLMGetFunctionHash

\* _get_function_hash of prompter.py and of llm.py on every pair of functions
SpecHash == InitHash /\ [][NextHash]_vars

InitPrompterInit ==
    /\ prev = NoCall
    /\ cur = NoCall
    /\ InitBatch
    /\ InitSem
    /\ InitOnline
    /\ args \in PrompterInitArgs
    /\ returned = NotCalled

NextPrompterInit == PrompterConstruct

\* Prompter.__init__ on user functions of every arity
SpecPrompterInit == InitPrompterInit /\ [][NextPrompterInit]_vars

\* bursts of concurrent batch operations on one processor
SpecSem == Init /\ [][NextSem]_vars

====
